---- MODULE Spec2Model ----
(***************************************************************************)
(* State-machine model of the sudoku solver core:                          *)
(*   src/src/sudoku_board.py    SudokuBoard (grid + row/column/box sets)   *)
(*   src/src/sudoku_solvers.py  BacktrackingSolverBasic / EasiestFirst     *)
(* A recursive _backtrack call is unfolded into steps over an explicit     *)
(* stack of frames: entering a call, taking the next loop candidate, and   *)
(* undoing a placement after a callee returned False.                      *)
(***************************************************************************)
EXTENDS Integers, Sequences, FiniteSets, TLC

VARIABLES
    sudoku_board,      \* the grid handed to SudokuBoard.__init__
    input_is_ndarray,  \* TRUE: the caller passed an np.ndarray, FALSE: a list of lists
    pc,                \* position of the program
    _board,            \* SudokuBoard._board
    board_is_ndarray,  \* whether _board currently is an np.ndarray (or a list of lists)
    _original_board,   \* SudokuBoard._original_board
    rows,              \* SudokuBoard.rows
    columns,           \* SudokuBoard.columns
    subgrids,          \* SudokuBoard.subgrids
    filled_values,     \* SudokuBoard.filled_values
    solver_class,      \* class of the solver object
    timeout,           \* solver.timeout
    start_time,        \* solver.start_time
    now,               \* the wall-clock time, as time.time() would return it
    original_board,    \* solve()'s local deep copy (its _board)
    stack,             \* active _backtrack frames, innermost last
    bt_result,         \* how the outermost _backtrack call ended
    ret_board,         \* first component of solve()'s return value
    status,            \* second component of solve()'s return value
    solves,            \* number of solve() calls made
    entry_pristine,    \* whether the board was as constructed when solve() was entered
    calls,             \* the calls made so far on the board and the solver, and how each ended
    stdout             \* the lines print() has written

vars == <<sudoku_board, input_is_ndarray, pc, _board, board_is_ndarray,
          _original_board, rows, columns, subgrids, filled_values,
          solver_class, timeout, start_time, now, original_board, stack,
          bt_result, ret_board, status, solves, entry_pristine, calls, stdout>>

boardVars == <<_board, board_is_ndarray, _original_board, rows, columns,
               subgrids, filled_values>>
solverVars == <<solver_class, timeout, start_time, now, original_board,
                stack, bt_result, ret_board, status, solves, entry_pristine>>

(***************************************************************************)
(* Program constants.                                                      *)
(***************************************************************************)
N == 9
Box == 3
Idx == 0 .. (N - 1)
Digits == 1 .. N
NoTimeout == -1   \* timeout=None
MinClues == 17    \* below this many clues __init__ prints a warning

(***************************************************************************)
(* Bounds of the model.                                                    *)
(***************************************************************************)
MaxHoles == 6     \* how many cells of HoleSeq an input may leave empty
MaxElapsed == 2   \* largest time.time() - start_time a solve observes
MaxSolves == 1    \* solve() calls per behaviour
MaxAgain == 1     \* further solve() calls per behaviour where solve() is called again
MaxAgainHoles == 4 \* cells of HoleSeq an input may leave empty where solve() is called again
MaxOps == 2       \* direct place_number/remove_number/reset calls per behaviour
MaxBoardHoles == 4 \* cells of HoleSeq an input of the direct board calls may leave empty
MaxLiveHoles == 4 \* cells of LiveHoleSeq an input may leave empty where termination is checked

(***************************************************************************)
(* Inputs: the completed grid of the repository's easy_1 test board, with  *)
(* any subset of the first MaxHoles cells of HoleSeq emptied and at most   *)
(* one clue overwritten.                                                   *)
(***************************************************************************)
BaseRows ==
    << <<9, 1, 3, 8, 6, 5, 4, 2, 7>>,
       <<6, 8, 7, 2, 4, 3, 9, 1, 5>>,
       <<2, 5, 4, 7, 9, 1, 6, 8, 3>>,
       <<4, 7, 9, 5, 8, 6, 1, 3, 2>>,
       <<1, 6, 2, 4, 3, 7, 5, 9, 8>>,
       <<5, 3, 8, 9, 1, 2, 7, 6, 4>>,
       <<3, 4, 5, 6, 2, 9, 8, 7, 1>>,
       <<8, 9, 1, 3, 7, 4, 2, 5, 6>>,
       <<7, 2, 6, 1, 5, 8, 3, 4, 9>> >>

BaseGrid == [r \in Idx |-> [c \in Idx |-> BaseRows[r + 1][c + 1]]]

HoleSeq == << <<0, 1>>, <<0, 5>>, <<2, 1>>, <<2, 5>>, <<8, 3>>, <<0, 3>>,
              <<8, 8>>, <<4, 4>> >>

Holes == {HoleSeq[k] : k \in 1 .. MaxHoles}

OverrideCell == <<8, 5>>
OverrideValues == {-1, 1, 10}

Blank(g, H) == [r \in Idx |-> [c \in Idx |-> IF <<r, c>> \in H THEN 0 ELSE g[r][c]]]

SetCell(g, row, col, v) == [g EXCEPT ![row][col] = v]

\* four cells holding 4 and 9 crosswise: emptied, the first of them has the
\* candidates {4, 9} and the grid has two completions
CrossHoles == {<<6, 1>>, <<6, 5>>, <<7, 1>>, <<7, 5>>}

Inputs ==
    LET blanked == {Blank(BaseGrid, H) : H \in SUBSET Holes}
    IN  blanked
        \cup {SetCell(g, OverrideCell[1], OverrideCell[2], v) :
                 g \in blanked, v \in OverrideValues}
        \cup {Blank(BaseGrid, CrossHoles)}

\* inputs and arguments of the direct board calls
BoardHoles == {HoleSeq[k] : k \in 1 .. MaxBoardHoles}
\* the base grid cut down to rows x cols cells
Cut(nrows, ncols) ==
    [r \in 0 .. (nrows - 1) |-> [c \in 0 .. (ncols - 1) |-> BaseGrid[r][c]]]

\* the base grid with only its first k clues (row-major) kept
FirstClues(k) == [r \in Idx |-> [c \in Idx |-> IF r * N + c < k THEN BaseGrid[r][c] ELSE 0]]

BoardInputs ==
    LET blanked == {Blank(BaseGrid, H) : H \in SUBSET BoardHoles}
    IN  blanked
        \cup {SetCell(g, OverrideCell[1], OverrideCell[2], v) :
                 g \in blanked, v \in OverrideValues}
        \cup {Cut(N - 1, N), Cut(N, N - 1)}
        \cup {FirstClues(MinClues - 1), FirstClues(MinClues)}
ApiCells == {<<0, 1>>, <<0, 5>>}
ApiNums == {1, 5, 10}

ZeroGrid == [r \in Idx |-> [c \in Idx |-> 0]]
NoSets == [k \in Idx |-> {}]

(***************************************************************************)
(* SudokuBoard: pure helpers.                                              *)
(***************************************************************************)
_all_possible_values == 1 .. 9

\* board.shape of a rectangular input
shape(g) == <<Cardinality(DOMAIN g), Cardinality(DOMAIN g[0])>>

count_nonzero(g) == Cardinality({p \in Idx \X Idx : g[p[1]][p[2]] # 0})

array_equal(a, b) == \A r \in Idx : \A c \in Idx : a[r][c] = b[r][c]

subgrid_index(row, col) == (row \div Box) * Box + (col \div Box)

\* duplication_check_1d as it would be without the arr > 0 filter
duplication_check_1d_counting_zeros(g, cells) ==
    Cardinality({g[p[1]][p[2]] : p \in cells}) < Cardinality(cells)

\* duplication_check_1d over the cells `cells` of grid g
duplication_check_1d(g, cells) ==
    Cardinality({g[p[1]][p[2]] : p \in {q \in cells : g[q[1]][q[2]] > 0}})
        < Cardinality({q \in cells : g[q[1]][q[2]] > 0})

RowCells(r) == {<<r, c>> : c \in Idx}
ColCells(c) == {<<r, c>> : r \in Idx}
SubgridCells(k) == {p \in Idx \X Idx : subgrid_index(p[1], p[2]) = k}

valid_elements(g) == \A r \in Idx : \A c \in Idx : g[r][c] >= 0 /\ g[r][c] <= 9

\* TRUE iff _validate_board_legality returns without raising
_validate_board_legality(g) ==
    /\ valid_elements(g)
    /\ ~ \/ \E r \in Idx : duplication_check_1d(g, RowCells(r))
         \/ \E c \in Idx : duplication_check_1d(g, ColCells(c))
         \/ \E k \in Idx : duplication_check_1d(g, SubgridCells(k))

\* the three set families _initialise_sets builds from grid g
InitRows(g) == [r \in Idx |-> {g[r][c] : c \in Idx} \ {0}]
InitColumns(g) == [c \in Idx |-> {g[r][c] : r \in Idx} \ {0}]
InitSubgrids(g) == [k \in Idx |-> {g[p[1]][p[2]] : p \in SubgridCells(k)} \ {0}]

\* check_valid as it would be without the test of the column's set
check_valid_without_column(row, col, num) ==
    /\ num \notin rows[row]
    /\ num \notin subgrids[subgrid_index(row, col)]

check_valid(row, col, num) ==
    /\ num \notin rows[row]
    /\ num \notin columns[col]
    /\ num \notin subgrids[subgrid_index(row, col)]

\* find_possible_cell_values as it would be without the subgrid's values
find_possible_cell_values_without_subgrids(row, col) ==
    _all_possible_values \ (rows[row] \cup columns[col])

find_possible_cell_values(row, col) ==
    _all_possible_values \
        (rows[row] \cup columns[col] \cup subgrids[subgrid_index(row, col)])

AllCells == [k \in 1 .. (N * N) |-> <<(k - 1) \div N, (k - 1) % N>>]

IsEmptyCell(p) == _board[p[1]][p[2]] = 0

\* get_empty_cells as it would be if it listed every cell of the grid
get_empty_cells_listing_all_cells == AllCells

\* get_empty_cells on an ndarray grid: the empty cells in row-major order;
\* <<>> stands for (None, None)
get_empty_cells == SelectSeq(AllCells, IsEmptyCell)

\* the mutable state of the board object
BoardState ==
    [_board |-> _board, rows |-> rows, columns |-> columns, subgrids |-> subgrids,
     filled_values |-> filled_values]

\* the record of a call: its arguments, whether it raised, what it returned
\* and the time and the state of the board when it was made
Call(op, row, col, num, raised, ret) ==
    [op |-> op, row |-> row, col |-> col, num |-> num, raised |-> raised, ret |-> ret,
     at |-> now, pre |-> BoardState]

\* number of direct calls of the board's methods made so far
DirectCalls == Cardinality({k \in 1 .. Len(calls) : calls[k].op # "solve"})

\* the record of the running solve() call is completed when solve() ends
EndSolve(raised, ret) ==
    calls' = [calls EXCEPT ![Len(calls)] = [@ EXCEPT !.raised = raised, !.ret = ret]]

(***************************************************************************)
(* SudokuBoard: construction and the mutating methods.                     *)
(***************************************************************************)
InitWith(inputs) ==
    /\ sudoku_board \in inputs
    /\ input_is_ndarray \in BOOLEAN
    /\ pc = "new"
    /\ _board = ZeroGrid
    /\ board_is_ndarray = TRUE
    /\ _original_board = ZeroGrid
    /\ rows = NoSets
    /\ columns = NoSets
    /\ subgrids = NoSets
    /\ filled_values = 0
    /\ solver_class = "none"
    /\ timeout = NoTimeout
    /\ start_time = 0
    /\ now = 0
    /\ original_board = ZeroGrid
    /\ stack = <<>>
    /\ bt_result = "none"
    /\ ret_board = "None"
    /\ status = "none"
    /\ solves = 0
    /\ entry_pristine = FALSE
    /\ calls = <<>>
    /\ stdout = <<>>

Init == InitWith(Inputs)

\* SudokuBoard.__init__: the shape check or the validation raises, or the
\* fields are initialised
SudokuBoard_init ==
    /\ pc = "new"
    /\ IF shape(sudoku_board) # <<9, 9>>
       THEN /\ pc' = "ctor_error"
            /\ UNCHANGED <<boardVars, stdout>>
       ELSE IF ~ _validate_board_legality(sudoku_board)
       THEN \* _board and _original_board are assigned before the validation
            /\ pc' = "ctor_error"
            /\ _board' = sudoku_board
            /\ _original_board' = sudoku_board
            /\ UNCHANGED <<board_is_ndarray, rows, columns, subgrids, filled_values, stdout>>
       ELSE /\ pc' = "idle"
            /\ stdout' = IF count_nonzero(sudoku_board) < MinClues
                         THEN Append(stdout, "[WARNING] Puzzle has multiple possible solutions.")
                         ELSE stdout
            /\ _board' = sudoku_board
            /\ board_is_ndarray' = TRUE
            /\ _original_board' = sudoku_board
            /\ rows' = InitRows(sudoku_board)
            /\ columns' = InitColumns(sudoku_board)
            /\ subgrids' = InitSubgrids(sudoku_board)
            /\ filled_values' = 0
    /\ UNCHANGED <<sudoku_board, input_is_ndarray, solverVars, calls>>

\* place_number raises ValueError (and changes nothing)
place_number_raises(row, col, num) ==
    \/ num < 1
    \/ num > 9
    \/ ~ check_valid(row, col, num)

\* place_number as it would be without self.rows[row].add(num)
place_number_without_row_add(row, col, num) ==
    IF place_number_raises(row, col, num)
    THEN UNCHANGED boardVars
    ELSE /\ _board' = SetCell(_board, row, col, num)
         /\ columns' = [columns EXCEPT ![col] = @ \cup {num}]
         /\ subgrids' = [subgrids EXCEPT ![subgrid_index(row, col)] = @ \cup {num}]
         /\ filled_values' = filled_values + 1
         /\ UNCHANGED <<board_is_ndarray, _original_board, rows>>

\* effect of place_number on the board
place_number(row, col, num) ==
    IF place_number_raises(row, col, num)
    THEN UNCHANGED boardVars
    ELSE /\ _board' = SetCell(_board, row, col, num)
         /\ rows' = [rows EXCEPT ![row] = @ \cup {num}]
         /\ columns' = [columns EXCEPT ![col] = @ \cup {num}]
         /\ subgrids' = [subgrids EXCEPT ![subgrid_index(row, col)] = @ \cup {num}]
         /\ filled_values' = filled_values + 1
         /\ UNCHANGED <<board_is_ndarray, _original_board>>

\* remove_number raises KeyError: one of the three set.remove calls fails
remove_number_raises(row, col, num) ==
    \/ num \notin rows[row]
    \/ num \notin columns[col]
    \/ num \notin subgrids[subgrid_index(row, col)]

\* remove_number as it would be without self._board[row][col] = 0
remove_number_without_clear(row, col, num) ==
    LET inRow == num \in rows[row]
        inCol == inRow /\ num \in columns[col]
        inSub == inCol /\ num \in subgrids[subgrid_index(row, col)]
    IN  /\ rows' = IF inRow THEN [rows EXCEPT ![row] = @ \ {num}] ELSE rows
        /\ columns' = IF inCol THEN [columns EXCEPT ![col] = @ \ {num}] ELSE columns
        /\ subgrids' = IF inSub
                       THEN [subgrids EXCEPT ![subgrid_index(row, col)] = @ \ {num}]
                       ELSE subgrids
        /\ filled_values' = IF inSub THEN filled_values - 1 ELSE filled_values
        /\ UNCHANGED <<_board, board_is_ndarray, _original_board>>

\* remove_number as it would be without self.filled_values -= 1
remove_number_without_counter(row, col, num) ==
    LET inRow == num \in rows[row]
        inCol == inRow /\ num \in columns[col]
        inSub == inCol /\ num \in subgrids[subgrid_index(row, col)]
    IN  /\ _board' = SetCell(_board, row, col, 0)
        /\ rows' = IF inRow THEN [rows EXCEPT ![row] = @ \ {num}] ELSE rows
        /\ columns' = IF inCol THEN [columns EXCEPT ![col] = @ \ {num}] ELSE columns
        /\ subgrids' = IF inSub
                       THEN [subgrids EXCEPT ![subgrid_index(row, col)] = @ \ {num}]
                       ELSE subgrids
        /\ UNCHANGED <<board_is_ndarray, _original_board, filled_values>>

\* effect of remove_number on the board, statement by statement: the cell is
\* cleared first, then each set.remove either succeeds or raises
remove_number(row, col, num) ==
    LET inRow == num \in rows[row]
        inCol == inRow /\ num \in columns[col]
        inSub == inCol /\ num \in subgrids[subgrid_index(row, col)]
    IN  /\ _board' = SetCell(_board, row, col, 0)
        /\ rows' = IF inRow THEN [rows EXCEPT ![row] = @ \ {num}] ELSE rows
        /\ columns' = IF inCol THEN [columns EXCEPT ![col] = @ \ {num}] ELSE columns
        /\ subgrids' = IF inSub
                       THEN [subgrids EXCEPT ![subgrid_index(row, col)] = @ \ {num}]
                       ELSE subgrids
        /\ filled_values' = IF inSub THEN filled_values - 1 ELSE filled_values
        /\ UNCHANGED <<board_is_ndarray, _original_board>>

\* reset as it would be if it left _board alone
reset_without_copy ==
    UNCHANGED <<_board, board_is_ndarray, _original_board, rows, columns, subgrids,
                filled_values>>

\* effect of reset on the board: only _board is reassigned, to a deep copy
\* of _original_board, which has the type of the constructor's argument
reset ==
    /\ _board' = _original_board
    /\ board_is_ndarray' = input_is_ndarray
    /\ UNCHANGED <<_original_board, rows, columns, subgrids, filled_values>>

(***************************************************************************)
(* Solvers (src/src/sudoku_solvers.py).                                    *)
(***************************************************************************)
SolverClasses == {"BacktrackingSolverBasic", "BacktrackingSolverEasiestFirst"}
TimeoutChoices == {NoTimeout, 0, 1}

\* Python truthiness of self.timeout: None and 0 are falsy
timeout_set == timeout # NoTimeout /\ timeout # 0

Top == stack[Len(stack)]
Pop == SubSeq(stack, 1, Len(stack) - 1)

Min(S) == CHOOSE x \in S : \A y \in S : x <= y
Max(S) == CHOOSE x \in S : \A y \in S : x >= y

\* whether the board is in the state __init__ left it in
Pristine ==
    /\ board_is_ndarray
    /\ _board = _original_board
    /\ rows = InitRows(_original_board)
    /\ columns = InitColumns(_original_board)
    /\ subgrids = InitSubgrids(_original_board)
    /\ filled_values = 0

\* BacktrackingSolverBasic.__init__ (inherited by EasiestFirst)
Solver_init ==
    /\ pc = "idle"
    /\ solver_class = "none"
    /\ \E cls \in SolverClasses, t \in TimeoutChoices :
          /\ solver_class' = cls
          /\ timeout' = t
    /\ UNCHANGED <<sudoku_board, input_is_ndarray, stdout, pc, boardVars, start_time, now,
                   original_board, stack, bt_result, ret_board, status, solves,
                   entry_pristine, calls>>

\* solve(), up to its call of self._backtrack()
solve_call ==
    /\ pc \in {"idle", "done"}
    /\ solver_class # "none"
    /\ solves' = solves + 1
    /\ original_board' = _board
    /\ start_time' = IF timeout_set THEN now ELSE start_time
    /\ stack' = <<>>
    /\ bt_result' = "none"
    /\ ret_board' = "None"
    /\ status' = "none"
    /\ entry_pristine' = Pristine
    /\ pc' = "call"
    /\ calls' = Append(calls, Call("solve", 0, 0, 0, FALSE, "none"))
    /\ UNCHANGED <<sudoku_board, input_is_ndarray, stdout, boardVars, solver_class, timeout,
                   now>>

\* a call of solve()
solve ==
    /\ solves < MaxSolves
    /\ solve_call

\* a further call of solve() on the same solver and board objects
solve_again ==
    /\ solves >= MaxSolves
    /\ solves < MaxSolves + MaxAgain
    /\ solve_call

\* solve(), after self._backtrack() returned: the returned boolean is not
\* looked at, the grids are compared
solve_return(res) ==
    /\ bt_result' = res
    /\ stack' = <<>>
    /\ pc' = "done"
    /\ IF array_equal(original_board, _board)
       THEN /\ ret_board' = "None"
            /\ status' = "Board has no solution"
            /\ EndSolve(FALSE, "Board has no solution")
       ELSE /\ ret_board' = "self.board"
            /\ status' = "Solved"
            /\ EndSolve(FALSE, "Solved")

\* the except branch as it would be if it returned the board
solve_timeout_returning_board ==
    /\ bt_result' = "TimeoutException"
    /\ stack' = <<>>
    /\ pc' = "done"
    /\ ret_board' = "self.board"
    /\ status' = "Timeout occurred"
    /\ EndSolve(FALSE, "Timeout occurred")

\* solve(), except TimeoutException
solve_timeout ==
    /\ bt_result' = "TimeoutException"
    /\ stack' = <<>>
    /\ pc' = "done"
    /\ ret_board' = "None"
    /\ status' = "Timeout occurred"
    /\ EndSolve(FALSE, "Timeout occurred")

\* an exception solve() does not catch leaves solve() without a return value
solve_raises(exc) ==
    /\ bt_result' = exc
    /\ stack' = <<>>
    /\ pc' = "raised"
    /\ EndSolve(TRUE, exc)
    /\ UNCHANGED <<ret_board, status>>

\* min_options_idx as it would be if list.index found the last minimum
min_options_idx_last(I) ==
    LET cell_options_num == [k \in 1 .. Len(I) |->
                                Cardinality(find_possible_cell_values(I[k][1], I[k][2]))]
        least == Min({cell_options_num[k] : k \in 1 .. Len(I)})
    IN  CHOOSE k \in 1 .. Len(I) :
            /\ cell_options_num[k] = least
            /\ \A m \in 1 .. Len(I) : cell_options_num[m] = least => m <= k

\* _find_easiest_cell: index (into I) of the first cell with the fewest options
min_options_idx(I) ==
    LET cell_options_num == [k \in 1 .. Len(I) |->
                                Cardinality(find_possible_cell_values(I[k][1], I[k][2]))]
        least == Min({cell_options_num[k] : k \in 1 .. Len(I)})
    IN  Min({k \in 1 .. Len(I) : cell_options_num[k] = least})

_find_easiest_cell(I) ==
    LET k == min_options_idx(I)
    IN  [i |-> I[k][1], j |-> I[k][2],
         cell_options |-> find_possible_cell_values(I[k][1], I[k][2])]

\* the frame a _backtrack call sets up before its for loop: the chosen cell,
\* the values the loop has still to yield, and (for the properties) the
\* state of the board the call was entered with
BasicFrame(I) ==
    [i |-> I[1][1], j |-> I[1][2], num |-> 0, rest |-> 1 .. 9, entry |-> BoardState]

EasiestFirstFrame(I) ==
    LET e == _find_easiest_cell(I)
    IN  [i |-> e.i, j |-> e.j, num |-> 0, rest |-> e.cell_options, entry |-> BoardState]

\* raise TimeoutException as it would be if the raising call first undid
\* the placement of its caller
raise_TimeoutException_with_undo ==
    /\ solve_timeout
    /\ IF stack = <<>>
       THEN UNCHANGED boardVars
       ELSE remove_number(Top.i, Top.j, Top.num)

\* raise TimeoutException: no _backtrack level has a handler, so the
\* exception unwinds every active call and reaches solve()'s except clause
\* with the board as it is
raise_TimeoutException ==
    /\ solve_timeout
    /\ UNCHANGED boardVars

\* the wall-clock time a _backtrack call may be entered at: time passes
\* while solve() runs (it is only looked at when a timeout is given)
EntryTimes ==
    now .. (IF timeout # NoTimeout THEN calls[Len(calls)].at + MaxElapsed ELSE now)

\* top of a _backtrack call: timeout check, empty cells, choice of the cell
backtrack_enter ==
    /\ pc = "call"
    /\ \E t \in EntryTimes :
          /\ now' = t
          /\ IF timeout_set /\ t - start_time > timeout
             THEN raise_TimeoutException
             ELSE \/ /\ board_is_ndarray
                     /\ UNCHANGED boardVars
                     /\ \E I \in {get_empty_cells} :
                           IF I = <<>>
                           THEN solve_return("True")
                           ELSE /\ stack' = Append(stack,
                                       IF solver_class = "BacktrackingSolverBasic"
                                       THEN BasicFrame(I)
                                       ELSE EasiestFirstFrame(I))
                                /\ pc' = "loop"
                                /\ UNCHANGED <<bt_result, ret_board, status, calls>>
                  \* a list of lists compared with 0 is False: np.where(False)
                  \* is empty (NumPy 1.x) or raises ValueError (NumPy >= 2.1)
                  \/ /\ ~ board_is_ndarray
                     /\ UNCHANGED boardVars
                     /\ \/ solve_return("True")
                        \/ solve_raises("ValueError")
    /\ UNCHANGED <<sudoku_board, input_is_ndarray, stdout, solver_class, timeout,
                   start_time, original_board, solves, entry_pristine>>

\* BacktrackingSolverBasic._backtrack, up to the for loop
Basic_enter ==
    /\ solver_class = "BacktrackingSolverBasic"
    /\ backtrack_enter

\* BacktrackingSolverEasiestFirst._backtrack, up to the for loop
EasiestFirst_enter ==
    /\ solver_class = "BacktrackingSolverEasiestFirst"
    /\ backtrack_enter

\* the end of the for loop as it would be if the loop started over instead
\* of returning False
backtrack_return_false_retrying ==
    /\ UNCHANGED boardVars
    /\ stack' = [stack EXCEPT ![Len(stack)] = [@ EXCEPT !.rest = Digits]]
    /\ pc' = "loop"
    /\ UNCHANGED <<bt_result, ret_board, status, calls>>

\* the for loop is exhausted: the call returns False to its caller, or to solve()
backtrack_return_false ==
    /\ UNCHANGED boardVars
    /\ IF Len(stack) = 1
       THEN solve_return("False")
       ELSE /\ stack' = Pop
            /\ pc' = "undo"
            /\ UNCHANGED <<bt_result, ret_board, status, calls>>

\* place num in the frame's cell and recurse
backtrack_place(num, rest) ==
    /\ place_number(Top.i, Top.j, num)
    /\ IF place_number_raises(Top.i, Top.j, num)
       THEN solve_raises("ValueError")
       ELSE /\ stack' = [stack EXCEPT ![Len(stack)] = [@ EXCEPT !.num = num, !.rest = rest]]
            /\ pc' = "call"
            /\ UNCHANGED <<bt_result, ret_board, status, calls>>

\* the basic for loop as it would be if it ran over range(9, 0, -1)
Basic_loop_descending ==
    /\ pc = "loop"
    /\ solver_class = "BacktrackingSolverBasic"
    /\ LET valid == {n \in Top.rest : check_valid(Top.i, Top.j, n)}
       IN  IF valid = {}
           THEN backtrack_return_false
           ELSE backtrack_place(Max(valid), {n \in Top.rest : n < Max(valid)})
    /\ UNCHANGED <<sudoku_board, input_is_ndarray, stdout, solver_class, timeout, start_time,
                   now, original_board, solves, entry_pristine>>

\* BacktrackingSolverBasic._backtrack, for num in range(1, 10): values that
\* fail check_valid are skipped, the first valid one is placed
Basic_loop ==
    /\ pc = "loop"
    /\ solver_class = "BacktrackingSolverBasic"
    /\ LET valid == {n \in Top.rest : check_valid(Top.i, Top.j, n)}
       IN  IF valid = {}
           THEN backtrack_return_false
           ELSE backtrack_place(Min(valid), {n \in Top.rest : n > Min(valid)})
    /\ UNCHANGED <<sudoku_board, input_is_ndarray, stdout, solver_class, timeout, start_time,
                   now, original_board, solves, entry_pristine>>

\* BacktrackingSolverEasiestFirst._backtrack, for num in cell_options: a set
\* is iterated in an order the language does not fix
EasiestFirst_loop ==
    /\ pc = "loop"
    /\ solver_class = "BacktrackingSolverEasiestFirst"
    /\ IF Top.rest = {}
       THEN backtrack_return_false
       ELSE \E num \in Top.rest : backtrack_place(num, Top.rest \ {num})
    /\ UNCHANGED <<sudoku_board, input_is_ndarray, stdout, solver_class, timeout, start_time,
                   now, original_board, solves, entry_pristine>>

\* the recursive call returned False: remove_number, then back to the loop
backtrack_undo ==
    /\ pc = "undo"
    /\ remove_number(Top.i, Top.j, Top.num)
    /\ IF remove_number_raises(Top.i, Top.j, Top.num)
       THEN solve_raises("KeyError")
       ELSE /\ pc' = "loop"
            /\ UNCHANGED <<stack, bt_result, ret_board, status, calls>>
    /\ UNCHANGED <<sudoku_board, input_is_ndarray, stdout, solver_class, timeout, start_time,
                   now, original_board, solves, entry_pristine>>

\* BacktrackingSolverBasic._backtrack, self.board.remove_number(i, j, num)
Basic_undo ==
    /\ solver_class = "BacktrackingSolverBasic"
    /\ backtrack_undo

\* BacktrackingSolverEasiestFirst._backtrack, self.board.remove_number(i, j, num)
EasiestFirst_undo ==
    /\ solver_class = "BacktrackingSolverEasiestFirst"
    /\ backtrack_undo

\* SudokuBoard.reset() called on the board a solve() call has returned from
reset_after_solve ==
    /\ pc = "done"
    /\ DirectCalls < MaxOps
    /\ reset
    /\ calls' = Append(calls, Call("reset", 0, 0, 0, FALSE, "None"))
    /\ pc' = "idle"
    /\ UNCHANGED <<sudoku_board, input_is_ndarray, stdout, solverVars>>

\* a direct call of SudokuBoard.reset()
reset_call ==
    /\ pc = "idle"
    /\ DirectCalls < MaxOps
    /\ reset
    /\ calls' = Append(calls, Call("reset", 0, 0, 0, FALSE, "None"))
    /\ pc' = "idle"
    /\ UNCHANGED <<sudoku_board, input_is_ndarray, stdout, solverVars>>

\* a direct call of SudokuBoard.place_number(row, col, num)
place_number_call ==
    /\ pc = "idle"
    /\ DirectCalls < MaxOps
    /\ \E p \in ApiCells, num \in ApiNums :
          /\ place_number(p[1], p[2], num)
          /\ calls' = Append(calls, Call("place_number", p[1], p[2], num,
                                          place_number_raises(p[1], p[2], num), "None"))
    /\ UNCHANGED <<sudoku_board, input_is_ndarray, stdout, pc, solverVars>>

\* a direct call of SudokuBoard.remove_number(row, col, num)
remove_number_call ==
    /\ pc = "idle"
    /\ DirectCalls < MaxOps
    /\ \E p \in ApiCells, num \in ApiNums :
          /\ remove_number(p[1], p[2], num)
          /\ calls' = Append(calls, Call("remove_number", p[1], p[2], num,
                                          remove_number_raises(p[1], p[2], num), "None"))
    /\ UNCHANGED <<sudoku_board, input_is_ndarray, stdout, pc, solverVars>>

\* a direct call of SudokuBoard.check_valid(row, col, num): it has no range
\* check and returns the boolean for any num
check_valid_call ==
    /\ pc = "idle"
    /\ DirectCalls < MaxOps
    /\ \E p \in ApiCells, num \in ApiNums :
          calls' = Append(calls, Call("check_valid", p[1], p[2], num, FALSE,
                                      IF check_valid(p[1], p[2], num) THEN "True" ELSE "False"))
    /\ UNCHANGED <<sudoku_board, input_is_ndarray, stdout, pc, boardVars, solverVars>>

Next ==
    \/ SudokuBoard_init
    \/ Solver_init
    \/ solve
    \/ Basic_enter
    \/ Basic_loop
    \/ Basic_undo
    \/ EasiestFirst_enter
    \/ EasiestFirst_loop
    \/ EasiestFirst_undo
    \/ reset_after_solve

Spec == Init /\ [][Next]_vars

\* the statements a running solve() executes: the interpreter keeps running
\* the call it is in until the call returns or raises
SolveStep ==
    \/ Basic_enter
    \/ Basic_loop
    \/ Basic_undo
    \/ EasiestFirst_enter
    \/ EasiestFirst_loop
    \/ EasiestFirst_undo

\* with these cells emptied and (8, 5) overwritten with 1 every empty cell
\* has a candidate and the grid has no completion
DeadEndHoles == {<<0, 3>>, <<0, 5>>, <<2, 1>>, <<2, 5>>, <<8, 3>>}

\* inputs where termination is checked: some of the first MaxLiveHoles
\* cells of LiveHoleSeq emptied, (8, 5) possibly overwritten (with 1 and both
\* (8, 3) and (2, 5) emptied the grid is legal and has no completion), the
\* grid with two completions and the grid where the search runs into dead ends
LiveHoleSeq == << <<8, 3>>, <<2, 5>>, <<0, 5>>, <<0, 1>>, <<2, 1>>, <<0, 3>> >>
LiveHoles == {LiveHoleSeq[k] : k \in 1 .. MaxLiveHoles}
LiveInputs ==
    LET blanked == {Blank(BaseGrid, H) : H \in SUBSET LiveHoles}
    IN  blanked
        \cup {SetCell(g, OverrideCell[1], OverrideCell[2], v) :
                 g \in blanked, v \in OverrideValues}
        \cup {Blank(BaseGrid, CrossHoles)}
        \cup {SetCell(Blank(BaseGrid, DeadEndHoles), OverrideCell[1], OverrideCell[2], 1)}

InitLive == InitWith(LiveInputs)

\* a board is constructed and solved
NextLive ==
    \/ SudokuBoard_init
    \/ Solver_init
    \/ solve
    \/ Basic_enter
    \/ Basic_loop
    \/ Basic_undo
    \/ EasiestFirst_enter
    \/ EasiestFirst_loop
    \/ EasiestFirst_undo

\* the same, with a solve() that is running never left suspended
SpecLive == InitLive /\ [][NextLive]_vars /\ WF_vars(SolveStep)

(***************************************************************************)
(* The board driven directly through its methods, without a solver.        *)
(***************************************************************************)
InitBoard == InitWith(BoardInputs)

NextBoard ==
    \/ SudokuBoard_init
    \/ place_number_call
    \/ remove_number_call
    \/ check_valid_call
    \/ reset_call

SpecBoard == InitBoard /\ [][NextBoard]_vars

(***************************************************************************)
(* A solver whose solve() is called again on the same board object.        *)
(***************************************************************************)
AgainHoles == {HoleSeq[k] : k \in 1 .. MaxAgainHoles}
AgainInputs == {Blank(BaseGrid, H) : H \in SUBSET AgainHoles}

InitAgain == InitWith(AgainInputs)

NextAgain ==
    \/ SudokuBoard_init
    \/ Solver_init
    \/ solve
    \/ solve_again
    \/ Basic_enter
    \/ Basic_loop
    \/ Basic_undo
    \/ EasiestFirst_enter
    \/ EasiestFirst_loop
    \/ EasiestFirst_undo
    \/ reset_after_solve

SpecAgain == InitAgain /\ [][NextAgain]_vars

(***************************************************************************)
(* Reference notions the properties are stated with: they read the grid    *)
(* only, never the row/column/box sets.                                    *)
(***************************************************************************)
Units == {RowCells(k) : k \in Idx} \cup {ColCells(k) : k \in Idx}
            \cup {SubgridCells(k) : k \in Idx}

NoEmptyCell(g) == \A r \in Idx : \A c \in Idx : g[r][c] # 0

\* every row, column and box holds each digit 1..9 exactly once
RuleConsistent(g) ==
    \A U \in Units : \A d \in Digits :
        Cardinality({p \in U : g[p[1]][p[2]] = d}) = 1

\* d occurs in no cell of the row, column or box of (row, col)
GridAllows(g, row, col, d) ==
    \A p \in RowCells(row) \cup ColCells(col) \cup SubgridCells(subgrid_index(row, col)) :
        g[p[1]][p[2]] # d

FirstEmpty(g) ==
    LET k == Min({n \in 1 .. (N * N) : g[AllCells[n][1]][AllCells[n][2]] = 0})
    IN  AllCells[k]

\* all legal completions of grid g
RECURSIVE Completions(_)
Completions(g) ==
    IF NoEmptyCell(g)
    THEN IF RuleConsistent(g) THEN {g} ELSE {}
    ELSE LET p == FirstEmpty(g)
         IN  UNION {Completions(SetCell(g, p[1], p[2], d)) :
                        d \in {e \in Digits : GridAllows(g, p[1], p[2], e)}}

\* the grid is 9x9, holds only 0..9 and repeats no digit in any unit
WellFormed(g) ==
    /\ DOMAIN g = Idx
    /\ \A r \in Idx : DOMAIN g[r] = Idx
    /\ \A r \in Idx : \A c \in Idx : g[r][c] \in 0 .. 9
    /\ \A U \in Units : \A p \in U : \A q \in U \ {p} :
          g[p[1]][p[2]] # 0 => g[p[1]][p[2]] # g[q[1]][q[2]]

Constructed == pc \notin {"new", "ctor_error"}

\* cell p comes before cell q in the row-major scan
RowMajorBefore(p, q) == p[1] < q[1] \/ (p[1] = q[1] /\ p[2] < q[2])

\* the empty cells of grid g
EmptyCellsOf(g) == {p \in Idx \X Idx : g[p[1]][p[2]] = 0}

\* number of candidates the board reports for cell p
NumCandidates(p) == Cardinality(find_possible_cell_values(p[1], p[2]))

Returned == pc = "done"
NoTimeoutFired == bt_result # "TimeoutException"
NoResetCalled == \A k \in 1 .. Len(calls) : calls[k].op # "reset"

\* the latest call and the one before it
LastCall == calls[Len(calls)]
PrevCall == calls[Len(calls) - 1]
LastCallIs(op) == Len(calls) >= 1 /\ LastCall.op = op
PrevCallIs(op) == Len(calls) >= 2 /\ PrevCall.op = op

(***************************************************************************)
(* Properties.                                                             *)
(***************************************************************************)

\* C1: whenever solve returns "Solved", the returned board's grid has no
\* empty cell and every row, column and box holds each digit exactly once.
C1_SolvedGridIsComplete ==
    (Returned /\ status = "Solved") =>
        /\ ret_board = "self.board"
        /\ NoEmptyCell(_board)
        /\ RuleConsistent(_board)

C1_Witness ==
    /\ Returned
    /\ status = "Solved"
    /\ solver_class = "BacktrackingSolverEasiestFirst"
    /\ Cardinality({p \in Idx \X Idx : original_board[p[1]][p[2]] = 0}) >= 4

\* C2: when solve is entered on a board as constructed and no timeout fires,
\* the status is "Solved" iff the grid has a legal completion and "Board has
\* no solution" iff it has none.
C2_StatusIffCompletion ==
    (Returned /\ entry_pristine /\ NoTimeoutFired) =>
        /\ status = "Solved" <=> Completions(original_board) # {}
        /\ status = "Board has no solution" <=> Completions(original_board) = {}

\* C3: on a board as constructed that has exactly one legal completion, with
\* no timeout firing, solve returns that completion under either policy, so
\* both policies return the identical solved grid.
C3_UniqueSolutionReturned ==
    (Returned /\ entry_pristine /\ NoTimeoutFired
        /\ Cardinality(Completions(original_board)) = 1) =>
        /\ status = "Solved"
        /\ ret_board = "self.board"
        /\ _board \in Completions(original_board)

\* C4: solve on a fully filled legal board returns "Solved" and the board,
\* whose grid is identical to the input.
C4_FullBoardSolved ==
    (Returned /\ entry_pristine /\ NoTimeoutFired /\ NoEmptyCell(original_board)) =>
        /\ status = "Solved"
        /\ ret_board = "self.board"
        /\ array_equal(_board, original_board)

\* C5: when the grid solve is entered with has no legal completion and no
\* timeout fires, solve returns (None, "Board has no solution") and the
\* board's grid equals the grid at entry.
C5_NoSolutionRestoresGrid ==
    (Returned /\ NoTimeoutFired /\ Completions(original_board) = {}) =>
        /\ status = "Board has no solution"
        /\ ret_board = "None"
        /\ array_equal(_board, original_board)

C5_Witness ==
    /\ Returned
    /\ entry_pristine
    /\ bt_result = "False"
    /\ status = "Board has no solution"
    /\ Completions(original_board) = {}
    /\ Cardinality({p \in Idx \X Idx : original_board[p[1]][p[2]] = 0}) >= 4

\* C6: a solver with timeout 0 returns (None, "Timeout occurred") on a board
\* that has empty cells.
C6_ZeroTimeoutTimesOut ==
    (Returned /\ timeout = 0 /\ entry_pristine /\ ~ NoEmptyCell(original_board)) =>
        /\ status = "Timeout occurred"
        /\ ret_board = "None"

\* C7: every solve call that returns gives one of the three status strings,
\* and a board exactly when the status is "Solved".
C7_StatusAndBoard ==
    Returned =>
        /\ status \in {"Solved", "Board has no solution", "Timeout occurred"}
        /\ ret_board # "None" <=> status = "Solved"

C7_Witness ==
    /\ Returned
    /\ status = "Timeout occurred"
    /\ ret_board = "None"
    /\ count_nonzero(_board) > count_nonzero(original_board)

\* the three set families hold exactly the digits of the grid
SetsMatchGrid ==
    /\ \A r \in Idx : \A d \in Digits :
          d \in rows[r] <=> \E p \in RowCells(r) : _board[p[1]][p[2]] = d
    /\ \A c \in Idx : \A d \in Digits :
          d \in columns[c] <=> \E p \in ColCells(c) : _board[p[1]][p[2]] = d
    /\ \A k \in Idx : \A d \in Digits :
          d \in subgrids[k] <=> \E p \in SubgridCells(k) : _board[p[1]][p[2]] = d

\* C8: after construction and after every place_number and remove_number
\* call (no reset having been called), d is in rows[r] iff a cell of row r
\* holds d, and likewise for columns and subgrids.
C8_SetsMatchGrid ==
    (pc = "idle" /\ NoResetCalled) => SetsMatchGrid

\* C9: after construction and after every place_number and remove_number
\* call (no reset having been called), filled_values is the number of
\* non-zero cells.
C9_FilledValuesCount ==
    (pc = "idle" /\ NoResetCalled) => filled_values = count_nonzero(_board)

\* C10: directly after reset(), whatever place_number/remove_number calls
\* came before, the grid equals the grid the board was constructed from.
C10_ResetRestoresGrid ==
    (Len(calls) > 0 /\ calls[Len(calls)].op = "reset") =>
        array_equal(_board, sudoku_board)

C10_Witness ==
    /\ Len(calls) >= 2
    /\ calls[Len(calls)].op = "reset"
    /\ calls[Len(calls) - 1].op = "place_number"
    /\ ~ calls[Len(calls) - 1].raised
    /\ sudoku_board[calls[Len(calls) - 1].row][calls[Len(calls) - 1].col]
          # calls[Len(calls) - 1].num
    /\ array_equal(_board, sudoku_board)

\* C11: directly after reset(), whatever place_number/remove_number calls
\* came before, the row, column and box sets equal the sets built from the
\* grid the board was constructed from.
C11_ResetRebuildsSets ==
    LastCallIs("reset") =>
        /\ rows = InitRows(sudoku_board)
        /\ columns = InitColumns(sudoku_board)
        /\ subgrids = InitSubgrids(sudoku_board)

\* C12: after a place_number(r,c,d) call that succeeded and the
\* remove_number(r,c,d) call directly following it, the grid, the three set
\* families and filled_values are what they were before the pair.
C12_PlaceThenRemoveIsIdentity ==
    (/\ PrevCallIs("place_number")
     /\ ~ PrevCall.raised
     /\ LastCallIs("remove_number")
     /\ LastCall.row = PrevCall.row
     /\ LastCall.col = PrevCall.col
     /\ LastCall.num = PrevCall.num) =>
        BoardState = PrevCall.pre

\* C13: on every board the program reaches, for every empty cell (r,c) and
\* every digit d of 1..9, d is in find_possible_cell_values(r,c) iff
\* check_valid(r,c,d) is true.
C13_CandidatesIffValid ==
    Constructed =>
        \A r \in Idx : \A c \in Idx :
            _board[r][c] = 0 =>
                \A d \in Digits :
                    d \in find_possible_cell_values(r, c) <=> check_valid(r, c, d)

C13_Witness ==
    /\ pc = "loop"
    /\ \E r \in Idx : \E c \in Idx :
          /\ _board[r][c] = 0
          /\ find_possible_cell_values(r, c) # {}
          /\ \E d \in Digits :
                /\ d \notin rows[r]
                /\ d \notin columns[c]
                /\ d \in subgrids[subgrid_index(r, c)]
                /\ ~ check_valid(r, c, d)

C15_PlaceNumberRaises ==
    (/\ LastCallIs("place_number")
     /\ \/ LastCall.num \notin Digits
        \/ ~ GridAllows(LastCall.pre._board, LastCall.row, LastCall.col, LastCall.num)) =>
        /\ LastCall.raised
        /\ BoardState = LastCall.pre

\* C16: check_valid called with a digit outside 1..9 raises an error rather
\* than returning a boolean.
C16_CheckValidOutOfRangeRaises ==
    (LastCallIs("check_valid") /\ LastCall.num \notin Digits) =>
        /\ LastCall.raised
        /\ LastCall.ret \notin {"True", "False"}

\* C17: a remove_number(r,c,d) call whose d is not the digit held by cell
\* (r,c) raises an error.
C17_RemoveWrongDigitRaises ==
    (/\ LastCallIs("remove_number")
     /\ LastCall.pre._board[LastCall.row][LastCall.col] # LastCall.num) =>
        LastCall.raised

\* C18: when solve is called twice in succession on the same board object
\* and no timeout fires in either call, the second call returns the same
\* status as the first and, when solved, the same grid.
C18_SolveTwiceSameResult ==
    (/\ Returned
     /\ PrevCallIs("solve")
     /\ LastCallIs("solve")
     /\ PrevCall.ret # "Timeout occurred"
     /\ LastCall.ret # "Timeout occurred") =>
        /\ LastCall.ret = PrevCall.ret
        /\ status = "Solved" => ret_board = "self.board" /\ _board = LastCall.pre._board

\* C19: after solve returned "Timeout occurred" on a board whose original
\* grid has a legal completion, reset() followed by a solve in which no
\* timeout fires returns "Solved" with a legal completion of the original
\* grid.
C19_TimeoutRecoverable ==
    (/\ pc \in {"done", "raised"}
     /\ Len(calls) >= 3
     /\ calls[Len(calls) - 2].op = "solve"
     /\ calls[Len(calls) - 2].ret = "Timeout occurred"
     /\ PrevCallIs("reset")
     /\ LastCallIs("solve")
     /\ NoTimeoutFired
     /\ Completions(sudoku_board) # {}) =>
        /\ Returned
        /\ status = "Solved"
        /\ ret_board = "self.board"
        /\ _board \in Completions(sudoku_board)

\* C20: whenever a _backtrack call (either policy) is in its loop with the
\* placements of its earlier iterations undone, and so whenever it returns
\* False, the grid, the three set families and filled_values are what they
\* were when that call was entered; after an exhausted search they are what
\* they were when solve was entered.
C20_UndoDiscipline ==
    /\ pc = "loop" => BoardState = Top.entry
    /\ (Returned /\ bt_result = "False") => BoardState = LastCall.pre

C20_Witness ==
    /\ pc = "loop"
    /\ Len(stack) >= 2
    /\ Top.num # 0
    /\ {n \in Top.rest : check_valid(Top.i, Top.j, n)} = {}
    /\ BoardState = Top.entry

\* C21: the step in which a _backtrack call signals the timeout ends solve
\* without any place_number or remove_number: the grid, the three set
\* families and filled_values are unchanged by it, and the digit placed by
\* every enclosing call is still on the board.
C21_TimeoutKeepsBoard ==
    [][(pc = "call" /\ pc' = "done" /\ bt_result' = "TimeoutException") =>
          /\ BoardState' = BoardState
          /\ status' = "Timeout occurred"
          /\ \A k \in 1 .. Len(stack) :
                _board'[stack[k].i][stack[k].j] = stack[k].num]_vars

C21_Witness ==
    /\ Returned
    /\ bt_result = "TimeoutException"
    /\ status = "Timeout occurred"
    /\ count_nonzero(_board) >= count_nonzero(original_board) + 2
    /\ ~ NoEmptyCell(_board)

\* C22: a _backtrack call (either policy) entered after the configured
\* deadline, that is later than timeout after solve was entered, ends solve
\* with (None, "Timeout occurred") before looking at the empty cells, also
\* when the board has no empty cell.
C22_TimeoutTestedFirst ==
    [][(/\ pc = "call"
        /\ pc' # "call"
        /\ timeout # NoTimeout
        /\ now' - LastCall.at > timeout) =>
          /\ pc' = "done"
          /\ status' = "Timeout occurred"
          /\ ret_board' = "None"]_vars

\* C23: within one _backtrack call of either policy a digit d is placed only
\* when no admissible digit smaller than d is still untried by that call
\* (every smaller admissible digit was placed, failed and was removed).
C23_AscendingDigitOrder ==
    [][(pc = "loop" /\ pc' = "call") =>
          \A n \in Digits :
              (n < stack'[Len(stack)].num /\ check_valid(Top.i, Top.j, n)) =>
                  n \notin Top.rest]_vars

\* C24: every _backtrack call of the most-constrained-first policy that
\* reaches its loop branches on an empty cell with the fewest candidates of
\* all empty cells, the first such cell of the row-major scan, and its loop
\* runs over exactly the candidates of that cell.
C24_MostConstrainedCell ==
    [][(/\ pc = "call"
        /\ pc' = "loop"
        /\ solver_class = "BacktrackingSolverEasiestFirst") =>
          LET f == stack'[Len(stack')]
              cell == <<f.i, f.j>>
          IN  /\ cell \in EmptyCellsOf(_board)
              /\ \A p \in EmptyCellsOf(_board) :
                    /\ NumCandidates(cell) <= NumCandidates(p)
                    /\ RowMajorBefore(p, cell) => NumCandidates(cell) < NumCandidates(p)
              /\ f.rest = {d \in Digits : check_valid(f.i, f.j, d)}]_vars

C24_Witness ==
    /\ pc = "loop"
    /\ solver_class = "BacktrackingSolverEasiestFirst"
    /\ Top.num = 0
    /\ \E p \in EmptyCellsOf(_board) :
          /\ RowMajorBefore(p, <<Top.i, Top.j>>)
          /\ NumCandidates(p) > Cardinality(Top.rest)
    /\ \E p \in EmptyCellsOf(_board) :
          /\ RowMajorBefore(<<Top.i, Top.j>>, p)
          /\ NumCandidates(p) = Cardinality(Top.rest)

\* C25: a _backtrack call that gets past the timeout test finds no empty
\* cell, and so ends the search with True, exactly when the grid has no 0
\* cell; otherwise the basic policy branches on the empty cell that comes
\* first in row-major order.
C25_EmptyCellsRowMajor ==
    [][(pc = "call" /\ pc' # "call" /\ bt_result' # "TimeoutException") =>
          /\ pc' = "done" <=> NoEmptyCell(_board)
          /\ pc' = "loop" <=> ~ NoEmptyCell(_board)
          /\ (pc' = "loop" /\ solver_class = "BacktrackingSolverBasic") =>
                LET f == stack'[Len(stack')]
                IN  /\ _board[f.i][f.j] = 0
                    /\ \A p \in EmptyCellsOf(_board) :
                          p = <<f.i, f.j>> \/ RowMajorBefore(<<f.i, f.j>>, p)]_vars

\* no row, column or box of grid g holds a non-zero digit twice
NoRepeatedDigit(g) ==
    \A U \in Units :
        Cardinality({p \in U : g[p[1]][p[2]] # 0})
            = Cardinality({g[p[1]][p[2]] : p \in U} \ {0})

\* solve() has been entered on the board (it may have returned since)
InSolve == pc \in {"call", "loop", "undo", "done", "raised"}

\* C26: in every state reached during a solve of a validly constructed
\* board, under either policy, no row, column or box of the grid holds a
\* non-zero digit twice.
C26_NoRepeatedDigitDuringSolve ==
    InSolve => NoRepeatedDigit(_board)

\* the search is two calls deep and has digits of its own on the grid
C26_Witness ==
    /\ pc = "call"
    /\ Len(stack) >= 2
    /\ \A k \in 1 .. Len(stack) : _board[stack[k].i][stack[k].j] = stack[k].num
    /\ \E k \in 1 .. Len(stack) : stack[k].num # 0

\* C27: during a solve the clues are never touched: every cell that is
\* non-zero in the input (and at solve entry) holds that value in every state
\* of the solve and in the grid returned as Solved, and every cell the search
\* works on was empty at solve entry.
C27_CluesUntouched ==
    InSolve =>
        /\ \A r \in Idx : \A c \in Idx :
              /\ sudoku_board[r][c] # 0 => _board[r][c] = sudoku_board[r][c]
              /\ original_board[r][c] # 0 => _board[r][c] = original_board[r][c]
        /\ \A k \in 1 .. Len(stack) :
              /\ original_board[stack[k].i][stack[k].j] = 0
              /\ sudoku_board[stack[k].i][stack[k].j] = 0

\* a solve that filled at least two cells has returned its grid as Solved
C27_Witness ==
    /\ Returned
    /\ status = "Solved"
    /\ ret_board = "self.board"
    /\ Cardinality(EmptyCellsOf(original_board)) >= 2
    /\ EmptyCellsOf(_board) = {}
    /\ \E r \in Idx : \E c \in Idx : original_board[r][c] # 0

\* C28: with no timeout configured, a solve of a validly constructed board
\* terminates under both policies: the search is never deeper than the number
\* of cells empty at solve entry, and solve returns after _backtrack ended in
\* success (True) or exhaustion (False).
C28_SolveTerminates ==
    /\ [](InSolve => Len(stack) <= Cardinality(EmptyCellsOf(original_board)))
    /\ (pc = "call" /\ timeout = NoTimeout)
          ~> (Returned /\ bt_result \in {"True", "False"}
                      /\ status \in {"Solved", "Board has no solution"})

\* a solve without a timeout has returned after an exhausted search that
\* had placed and removed digits
C28_Witness ==
    /\ Returned
    /\ timeout = NoTimeout
    /\ bt_result = "False"
    /\ Cardinality(EmptyCellsOf(original_board)) >= 2

\* grid a is less than or equal to grid b, reading both in row-major order
LexLeq(a, b) ==
    \/ a = b
    \/ \E k \in 1 .. (N * N) :
          /\ a[AllCells[k][1]][AllCells[k][2]] < b[AllCells[k][1]][AllCells[k][2]]
          /\ \A m \in 1 .. (k - 1) :
                a[AllCells[m][1]][AllCells[m][2]] = b[AllCells[m][1]][AllCells[m][2]]

\* C29: when the input has several legal completions, the grid the basic
\* policy returns is one of them and is less than or equal to every legal
\* completion of the input, reading the grids in row-major order.
C29_BasicReturnsSmallestCompletion ==
    (Returned /\ solver_class = "BacktrackingSolverBasic" /\ entry_pristine
              /\ NoTimeoutFired /\ Cardinality(Completions(sudoku_board)) >= 2) =>
        /\ status = "Solved"
        /\ ret_board = "self.board"
        /\ _board \in Completions(sudoku_board)
        /\ \A c \in Completions(sudoku_board) : LexLeq(_board, c)

\* the basic policy has returned the solution of an input with two or more
\* completions
C29_Witness ==
    /\ Returned
    /\ solver_class = "BacktrackingSolverBasic"
    /\ entry_pristine
    /\ status = "Solved"
    /\ Cardinality(Completions(sudoku_board)) >= 2
    /\ \E c \in Completions(sudoku_board) : c # _board /\ LexLeq(_board, c)

\* C30: remove_number is atomic on failure: after a remove_number call that
\* raised, the grid, the three set families and the filled counter are as
\* they were before the call.
C30_RemoveNumberAtomicOnFailure ==
    (LastCallIs("remove_number") /\ LastCall.raised) => BoardState = LastCall.pre

====
